---- MODULE Spec2Model ----
(***************************************************************************)
(* Model of the MEXC copy-trading pipeline:                                *)
(*   exchange/order_monitor.py   OrderMonitor (poll loop, snapshot diff)   *)
(*   core/order_replicator.py    OrderReplicator (fan-out to the slaves)   *)
(*   core/copytrading.py         CopyTradingManager (start/stop, callbacks)*)
(* The exchange (MEXCClient) is the environment: the trader places,        *)
(* modifies and cancels orders on the master account, get_open_orders      *)
(* returns the open orders or raises, place_order returns or raises.       *)
(***************************************************************************)
EXTENDS Integers, Sequences, FiniteSets, TLC

\* ---------------------------------------------------------------- bounds
NumOrders == 2
MaxQuantity == 2
NumAccounts == 2
MaxStarts == 2
CopyMultiplier == 2
NumUsers == 2
TickSeconds == 30
MaxTime == 60

OrderIds == 1..NumOrders
Quantities == 1..MaxQuantity
Monitors == 1..MaxStarts
UserIds == 1..NumUsers

\* Python's None where it stands for a number (dict.get of a missing key).
None == -1

VARIABLES
    settings,             \* config.settings: slave_accounts, copy_multiplier, enable_copying
    open_orders,          \* the master account's open orders on the exchange
    used_ids,             \* order ids the exchange has handed out (ids are unique)
    running,              \* CopyTradingManager.running
    monitor,              \* CopyTradingManager.monitor: 0 is None, m the m-th OrderMonitor
    session,              \* master_client.session: who opened it, and whether it is open
    mon_running,          \* OrderMonitor.running, per monitor
    last_orders,          \* OrderMonitor.last_orders, per monitor
    current_orders_dict,  \* _monitor_loop's current_orders_dict, per monitor
    pc,                   \* where each monitor's coroutine stands
    todo,                 \* the order ids the running for-loop has still to visit
    tasks,                \* replicate_order's tasks of the fan-out in flight
    result,               \* what the replicator returned to the last callback
    events,               \* the callbacks invoked in the current poll cycle, in order
    cycle_error,          \* what raised in the current poll cycle
    delivered,            \* order ids on_order_placed has been called with
    replications,         \* per order id, how many times replicate_order fanned it out
    last_call,            \* the last start()/stop() call and whether it was ignored
    created,              \* what the last StrategyFactory.create_strategy call did
    strategy_input,       \* the market_data the strategy is handed
    analysis,             \* what the last analyze() call returned and logged
    reply,                \* the last answer a command handler of the bot sent
    main_pc,              \* where main() stands
    user_requests,        \* RateLimitMiddleware.user_requests
    now,                  \* datetime.now(), in seconds
    handled,              \* per user, the times of the events passed to the handler
    verdict               \* what the last RateLimitMiddleware call did with its event

vars == <<settings, open_orders, used_ids, running, monitor, session, mon_running,
          last_orders, current_orders_dict, pc, todo, tasks, result, events,
          cycle_error, delivered, replications, last_call, created, strategy_input,
          analysis, reply, main_pc, user_requests, now, handled, verdict>>

envVars == <<settings, open_orders, used_ids>>
managerVars == <<running, monitor, session, mon_running, last_call>>
loopVars == <<last_orders, current_orders_dict, pc, todo, tasks, result, events,
              cycle_error, delivered, replications>>

strategyVars == <<created, strategy_input, analysis>>
surfaceVars == <<reply, main_pc>>
limiterVars == <<user_requests, now, handled, verdict>>

pipelineVars == <<envVars, managerVars, loopVars>>

\* The state outside the copy-trading pipeline: the strategies, the bot's command
\* handlers with main(), and the rate limiter.
outsideVars == <<strategyVars, surfaceVars, limiterVars>>

\* ------------------------------------------------------------ data model
\* An order dict as the exchange returns it. A dict is a record whose fields
\* are its keys; an order the exchange returns without "quantity" lacks the field.
Order(i, q) ==
    [order_id |-> i, symbol |-> "BTC_USDT", side |-> "BUY", order_type |-> "LIMIT",
     quantity |-> q, price |-> 100]

OrderWithoutQuantity(i) ==
    [order_id |-> i, symbol |-> "BTC_USDT", side |-> "BUY", order_type |-> "LIMIT",
     price |-> 100]

\* A reduce-only stop order on another symbol: it has the optional keys too.
StopOrder(i, q) ==
    [order_id |-> i, symbol |-> "ETH_USDT", side |-> "SELL", order_type |-> "STOP",
     quantity |-> q, price |-> 90, stop_price |-> 95, reduce_only |-> TRUE]

OrdersOf(i) == {Order(i, q) : q \in Quantities} \cup {OrderWithoutQuantity(i)}

AccountNames == <<"A", "B", "C", "D">>

\* The account dicts slave_accounts may hold: "name" is optional.
AccountDicts == {[name |-> "A"], [name |-> "B"], [api_key |-> "key"]}

\* Every account list of NumAccounts accounts (display names need not differ).
AccountLists == [1..NumAccounts -> AccountDicts]

\* settings.slave_accounts: a list of account dicts.
SlaveAccounts == [a \in 1..NumAccounts |-> [name |-> AccountNames[a]]]

EmptyDict == [i \in {} |-> None]

\* dict.get(key, default)
Get(d, key, default) == IF key \in DOMAIN d THEN d[key] ELSE default

\* {o["order_id"]: o for o in current_orders}
OrdersDict(current_orders) ==
    [i \in {o.order_id : o \in current_orders} |->
        CHOOSE o \in current_orders : o.order_id = i]

NoResult == [kind |-> "unset"]
NoneResult == [kind |-> "None"]

\* ------------------------------------------------------------ replicator
\* replicate_order reads these keys with master_order[...]: a missing one is a KeyError.
RequiredKeys == {"symbol", "side", "order_type", "quantity"}

ReplicateOrderRaises(master_order) == ~(RequiredKeys \subseteq DOMAIN master_order)

\* The multiplier is forgotten: the master's quantity is submitted as it is.
ScaledQuantity_NoMultiplier(quantity, copy_multiplier) == quantity

\* quantity = master_order["quantity"] * settings.copy_multiplier
ScaledQuantity(quantity, copy_multiplier) == quantity * copy_multiplier

\* order_params without the optional keys of the master's order.
OrderParams_DropsOptional(master_order, copy_multiplier) ==
    [symbol |-> master_order.symbol,
     side |-> master_order.side,
     order_type |-> master_order.order_type,
     quantity |-> ScaledQuantity(master_order.quantity, copy_multiplier),
     price |-> Get(master_order, "price", None),
     stop_price |-> None,
     reduce_only |-> FALSE]

\* order_params of replicate_order
OrderParams(master_order, copy_multiplier) ==
    [symbol |-> master_order.symbol,
     side |-> master_order.side,
     order_type |-> master_order.order_type,
     quantity |-> ScaledQuantity(master_order.quantity, copy_multiplier),
     price |-> Get(master_order, "price", None),
     stop_price |-> Get(master_order, "stop_price", None),
     reduce_only |-> Get(master_order, "reduce_only", FALSE)]

\* tasks = [self._place_order_on_account(client, account, order_params) for ... zip(...)]
LaunchTasks(order_params, slave_accounts) ==
    [k \in 1..Len(slave_accounts) |->
        [state |-> "pending", params |-> order_params, raised |-> FALSE, ret |-> FALSE]]

\* _place_order_on_account: True when place_order returned, False when it raised.
PlaceOrderOnAccount(raised) == IF raised THEN FALSE ELSE TRUE

\* account.get("name", "Unknown")
AccountName(account) == Get(account, "name", "Unknown")

\* result_dict of replicate_order: filled in list order, a later account of the
\* same name overwrites an earlier one.
ResultDict(slave_accounts, results) ==
    LET n == IF Len(slave_accounts) < Len(results) THEN Len(slave_accounts)
             ELSE Len(results)
        names == {AccountName(slave_accounts[k]) : k \in 1..n}
        last(name) == CHOOSE k \in 1..n :
                        /\ AccountName(slave_accounts[k]) = name
                        /\ \A j \in 1..n : AccountName(slave_accounts[j]) = name => j <= k
    IN  [name \in names |-> results[last(name)].ret]

\* replicate_cancel and replicate_modify: "pass", they return None.
ReplicateCancel(master_order) == NoneResult

ReplicateModify(master_order, changes) == NoneResult

\* --------------------------------------------------------------- strategy
\* analyze() returning None.
NoSignal == [kind |-> "None"]

\* FilteredCopyStrategy.__init__: `allowed_symbols or []`, `exclude_symbols or []`
\* (the lists as sets: they are only tested for emptiness and membership).
FilteredCopyStrategy(trader_id, min_trade_size, allowed_symbols, exclude_symbols) ==
    [trader_id |-> trader_id, min_trade_size |-> min_trade_size,
     allowed_symbols |-> allowed_symbols, exclude_symbols |-> exclude_symbols]

\* The deny-list is consulted before the allow-list, and an allow-listed symbol passes.
FilteredCopyStrategy_analyze_AllowFirst(self, market_data) ==
    LET signal == Get(market_data, "signal", EmptyDict)
        trade_size == Get(signal, "quantity", 0) * Get(signal, "price", 0)
        symbol == Get(signal, "symbol", "None")
    IN  IF DOMAIN signal = {} THEN NoSignal
        ELSE IF trade_size < self.min_trade_size THEN NoSignal
        ELSE IF self.allowed_symbols # {} /\ symbol \in self.allowed_symbols
        THEN [trader_id |-> self.trader_id,
              symbol |-> symbol,
              side |-> Get(signal, "side", "None"),
              quantity |-> Get(signal, "quantity", None),
              price |-> Get(signal, "price", None),
              order_type |-> Get(signal, "order_type", "MARKET"),
              timestamp |-> Get(market_data, "timestamp", None)]
        ELSE IF self.allowed_symbols # {} THEN NoSignal
        ELSE IF symbol \in self.exclude_symbols THEN NoSignal
        ELSE [trader_id |-> self.trader_id,
              symbol |-> symbol,
              side |-> Get(signal, "side", "None"),
              quantity |-> Get(signal, "quantity", None),
              price |-> Get(signal, "price", None),
              order_type |-> Get(signal, "order_type", "MARKET"),
              timestamp |-> Get(market_data, "timestamp", None)]

\* FilteredCopyStrategy.analyze: None when there is no signal, when quantity * price
\* is below min_trade_size, when the symbol is not allowed or is excluded; the
\* copied signal otherwise.
FilteredCopyStrategy_analyze(self, market_data) ==
    LET signal == Get(market_data, "signal", EmptyDict)
        trade_size == Get(signal, "quantity", 0) * Get(signal, "price", 0)
        symbol == Get(signal, "symbol", "None")
    IN  IF DOMAIN signal = {} THEN NoSignal
        ELSE IF trade_size < self.min_trade_size THEN NoSignal
        ELSE IF self.allowed_symbols # {} /\ symbol \notin self.allowed_symbols THEN NoSignal
        ELSE IF symbol \in self.exclude_symbols THEN NoSignal
        ELSE [trader_id |-> self.trader_id,
              symbol |-> symbol,
              side |-> Get(signal, "side", "None"),
              quantity |-> Get(signal, "quantity", None),
              price |-> Get(signal, "price", None),
              order_type |-> Get(signal, "order_type", "MARKET"),
              timestamp |-> Get(market_data, "timestamp", None)]

\* class SignalSide(Enum)
SignalSide == {"BUY", "SELL", "CLOSE"}

\* SimpleCopyStrategy.__init__
SimpleCopyStrategy(trader_id) == [trader_id |-> trader_id]

\* _validate_signal without its test of the side.
SimpleCopyStrategy_validate_signal_AnySide(signal) ==
    /\ \A field \in {"symbol", "side", "quantity"} : field \in DOMAIN signal
    /\ ~(signal.quantity <= 0)

\* SimpleCopyStrategy._validate_signal
SimpleCopyStrategy_validate_signal(signal) ==
    /\ \A field \in {"symbol", "side", "quantity"} : field \in DOMAIN signal
    /\ signal.side \in SignalSide
    /\ ~(signal.quantity <= 0)

\* SimpleCopyStrategy.analyze: None when there is no signal or it is not valid,
\* the copied signal otherwise.
SimpleCopyStrategy_analyze(self, market_data) ==
    LET signal == Get(market_data, "signal", EmptyDict)
    IN  IF DOMAIN signal = {} THEN NoSignal
        ELSE IF ~SimpleCopyStrategy_validate_signal(signal) THEN NoSignal
        ELSE [trader_id |-> self.trader_id,
              symbol |-> Get(signal, "symbol", "None"),
              side |-> Get(signal, "side", "None"),
              quantity |-> Get(signal, "quantity", None),
              price |-> Get(signal, "price", None),
              order_type |-> Get(signal, "order_type", "MARKET"),
              timestamp |-> Get(market_data, "timestamp", None)]

\* What SimpleCopyStrategy.analyze logs: the warning of an invalid signal, or nothing.
SimpleCopyStrategy_log(self, market_data) ==
    LET signal == Get(market_data, "signal", EmptyDict)
    IN  IF DOMAIN signal = {} THEN "nothing"
        ELSE IF ~SimpleCopyStrategy_validate_signal(signal) THEN "Invalid signal"
        ELSE "nothing"

\* What FilteredCopyStrategy.analyze logs: the debug message of the first check
\* that fails, or nothing.
FilteredCopyStrategy_log(self, market_data) ==
    LET signal == Get(market_data, "signal", EmptyDict)
        trade_size == Get(signal, "quantity", 0) * Get(signal, "price", 0)
        symbol == Get(signal, "symbol", "None")
    IN  IF DOMAIN signal = {} THEN "nothing"
        ELSE IF trade_size < self.min_trade_size THEN "Signal rejected: trade size"
        ELSE IF self.allowed_symbols # {} /\ symbol \notin self.allowed_symbols
        THEN "Signal rejected: symbol not in allowed list"
        ELSE IF symbol \in self.exclude_symbols THEN "Signal rejected: symbol is excluded"
        ELSE "nothing"

\* An unknown name gives the simple strategy instead of an error.
StrategyFactory_create_strategy_DefaultsToSimple(strategy_type, kwargs) ==
    IF strategy_type = "filtered"
    THEN [kind |-> "returned", class |-> "FilteredCopyStrategy",
          strategy |-> FilteredCopyStrategy(Get(kwargs, "trader_id", None),
                                            Get(kwargs, "min_trade_size", 0),
                                            Get(kwargs, "allowed_symbols", {}),
                                            Get(kwargs, "exclude_symbols", {}))]
    ELSE [kind |-> "returned", class |-> "SimpleCopyStrategy",
          strategy |-> SimpleCopyStrategy(Get(kwargs, "trader_id", None))]

\* StrategyFactory.create_strategy: the strategy of the named type built from
\* kwargs, a ValueError for any other name.
StrategyFactory_create_strategy(strategy_type, kwargs) ==
    IF strategy_type = "simple"
    THEN [kind |-> "returned", class |-> "SimpleCopyStrategy",
          strategy |-> SimpleCopyStrategy(Get(kwargs, "trader_id", None))]
    ELSE IF strategy_type = "filtered"
    THEN [kind |-> "returned", class |-> "FilteredCopyStrategy",
          strategy |-> FilteredCopyStrategy(Get(kwargs, "trader_id", None),
                                            Get(kwargs, "min_trade_size", 0),
                                            Get(kwargs, "allowed_symbols", {}),
                                            Get(kwargs, "exclude_symbols", {}))]
    ELSE [kind |-> "raised", error |-> "ValueError"]

\* The signals a strategy is handed: every combination of present and absent
\* fields, valid and invalid sides, positive, zero and negative quantities.
Symbols == {"BTC_USDT", "ETH_USDT"}

Sides == SignalSide \cup {"HOLD"}

SignalQuantities == (0 - 1)..MaxQuantity

SignalPrices == {90, 100}

SignalFields == {"symbol", "side", "quantity", "price"}

FullSignals == [symbol : Symbols, side : Sides, quantity : SignalQuantities, price : SignalPrices]

Signals == {[field \in fields |-> full[field]] : full \in FullSignals, fields \in SUBSET SignalFields}

MarketData == {[signal |-> signal, timestamp |-> 1] : signal \in Signals} \cup {[timestamp |-> 1]}

\* The names and parameters create_strategy is called with.
StrategyTypes == {"simple", "filtered", "momentum"}

StrategyKwargs ==
    {[trader_id |-> 1]}
    \cup {[trader_id |-> 1, min_trade_size |-> floor] : floor \in {0, 150}}
    \cup {[trader_id |-> 1, min_trade_size |-> floor, allowed_symbols |-> allowed,
           exclude_symbols |-> exclude] :
            floor \in {0, 150}, allowed \in SUBSET {"BTC_USDT"}, exclude \in SUBSET {"BTC_USDT"}}

\* --------------------------------------------------------------- snapshot diff
NewOrders(current, last) == DOMAIN current \ DOMAIN last

\* Only a change of "status" counts as a modification.
ModifiedOrders_StatusOnly(current, last) ==
    {i \in DOMAIN current :
        i \in DOMAIN last /\ Get(current[i], "status", None) # Get(last[i], "status", None)}

ModifiedOrders(current, last) ==
    {i \in DOMAIN current : i \in DOMAIN last /\ current[i] # last[i]}

CancelledOrders(current, last) == DOMAIN last \ DOMAIN current

\* Where the loop stands once a for-loop has `rest` left to visit: an exhausted
\* loop falls through to the next one, the last one to the snapshot assignment.
AfterCancelled(rest) ==
    IF rest # {} THEN [pc |-> "cancelled", todo |-> rest]
    ELSE [pc |-> "update", todo |-> {}]

AfterModified(rest, current, last) ==
    IF rest # {} THEN [pc |-> "modified", todo |-> rest]
    ELSE AfterCancelled(CancelledOrders(current, last))

AfterPlaced(rest, current, last) ==
    IF rest # {} THEN [pc |-> "placed", todo |-> rest]
    ELSE AfterModified(ModifiedOrders(current, last), current, last)

\* The callback started without being awaited: the loop goes on at once.
AfterLaunch_NotAwaited(rest, current, last) == AfterPlaced(rest, current, last)

\* `await self.on_order_placed(...)` with the callback suspended in
\* `await self.replicator.replicate_order(order)`: the loop waits in the gather.
AfterLaunch(rest, current, last) == [pc |-> "gather", todo |-> rest]

\* ------------------------------------------------------------------- Init
\* Nothing was asked of the strategies, the bot or the rate limiter yet.
Unset == [kind |-> "unset"]

OutsideInit ==
    /\ created = Unset
    /\ strategy_input = EmptyDict
    /\ analysis = Unset
    /\ reply = [command |-> "none"]
    /\ main_pc = "main"
    /\ user_requests = EmptyDict
    /\ now = 0
    /\ handled = [user_id \in UserIds |-> <<>>]
    /\ verdict = [kind |-> "none"]

Init ==
    /\ settings = [slave_accounts |-> SlaveAccounts,
                   copy_multiplier |-> CopyMultiplier,
                   enable_copying |-> TRUE]
    /\ open_orders = {}
    /\ used_ids = {}
    /\ running = FALSE
    /\ monitor = 0
    /\ session = [by |-> 0, open |-> FALSE]
    /\ mon_running = [m \in Monitors |-> FALSE]
    /\ last_orders = [m \in Monitors |-> EmptyDict]
    /\ current_orders_dict = [m \in Monitors |-> EmptyDict]
    /\ pc = [m \in Monitors |-> "new"]
    /\ todo = [m \in Monitors |-> {}]
    /\ tasks = [m \in Monitors |-> <<>>]
    /\ result = [m \in Monitors |-> NoResult]
    /\ events = [m \in Monitors |-> <<>>]
    /\ cycle_error = [m \in Monitors |-> "none"]
    /\ delivered = {}
    /\ replications = [i \in OrderIds |-> 0]
    /\ last_call = "none"
    /\ OutsideInit

\* The state after construction for any configured account list.
FanOutInit ==
    /\ settings \in {[slave_accounts |-> accounts,
                      copy_multiplier |-> CopyMultiplier,
                      enable_copying |-> TRUE] : accounts \in AccountLists}
    /\ open_orders = {}
    /\ used_ids = {}
    /\ running = FALSE
    /\ monitor = 0
    /\ session = [by |-> 0, open |-> FALSE]
    /\ mon_running = [m \in Monitors |-> FALSE]
    /\ last_orders = [m \in Monitors |-> EmptyDict]
    /\ current_orders_dict = [m \in Monitors |-> EmptyDict]
    /\ pc = [m \in Monitors |-> "new"]
    /\ todo = [m \in Monitors |-> {}]
    /\ tasks = [m \in Monitors |-> <<>>]
    /\ result = [m \in Monitors |-> NoResult]
    /\ events = [m \in Monitors |-> <<>>]
    /\ cycle_error = [m \in Monitors |-> "none"]
    /\ delivered = {}
    /\ replications = [i \in OrderIds |-> 0]
    /\ last_call = "none"
    /\ OutsideInit

\* ------------------------------------------------------------ environment
\* The trader opens an order on the master account.
TraderPlace(i, o) ==
    /\ i \notin used_ids
    /\ o \in OrdersOf(i)
    /\ open_orders' = open_orders \cup {o}
    /\ used_ids' = used_ids \cup {i}
    /\ UNCHANGED <<settings, managerVars, loopVars, outsideVars>>

\* The trader opens a reduce-only stop order on the master account.
TraderPlaceStop(i, q) ==
    /\ i \notin used_ids
    /\ open_orders' = open_orders \cup {StopOrder(i, q)}
    /\ used_ids' = used_ids \cup {i}
    /\ UNCHANGED <<settings, managerVars, loopVars, outsideVars>>

\* An open order changes (a partial fill, an edit): its quantity differs afterwards.
TraderModify(o, q) ==
    /\ o \in open_orders
    /\ "quantity" \in DOMAIN o
    /\ q # o.quantity
    /\ open_orders' = (open_orders \ {o}) \cup {[o EXCEPT !.quantity = q]}
    /\ UNCHANGED <<settings, used_ids, managerVars, loopVars, outsideVars>>

\* An open order leaves the open-orders list (cancelled or filled).
TraderCancel(o) ==
    /\ o \in open_orders
    /\ open_orders' = open_orders \ {o}
    /\ UNCHANGED <<settings, used_ids, managerVars, loopVars, outsideVars>>

\* settings.enable_copying is configured from outside and may change at any time.
SetEnableCopying(b) ==
    /\ settings.enable_copying # b
    /\ settings' = [settings EXCEPT !.enable_copying = b]
    /\ UNCHANGED <<open_orders, used_ids, managerVars, loopVars, outsideVars>>

\* --------------------------------------------------------------- strategies
\* StrategyFactory.create_strategy(strategy_type, **kwargs) is called.
CreateStrategy(strategy_type, kwargs) ==
    /\ created' = [kind |-> "called", strategy_type |-> strategy_type, kwargs |-> kwargs,
                    result |-> StrategyFactory_create_strategy(strategy_type, kwargs)]
    /\ analysis' = Unset
    /\ UNCHANGED <<pipelineVars, strategy_input, surfaceVars, limiterVars>>

\* A market_data arrives for the strategy.
ReceiveSignal(data) ==
    /\ strategy_input' = data
    /\ analysis' = Unset
    /\ UNCHANGED <<pipelineVars, created, surfaceVars, limiterVars>>

\* await strategy.analyze(market_data) on the strategy the factory returned.
Analyze ==
    /\ created.kind = "called"
    /\ created.result.kind = "returned"
    /\ analysis.kind = "unset"
    /\ LET strategy == created.result.strategy
       IN  analysis' =
             IF created.result.class = "SimpleCopyStrategy"
             THEN [kind |-> "returned",
                   signal |-> SimpleCopyStrategy_analyze(strategy, strategy_input),
                   log |-> SimpleCopyStrategy_log(strategy, strategy_input)]
             ELSE [kind |-> "returned",
                   signal |-> FilteredCopyStrategy_analyze(strategy, strategy_input),
                   log |-> FilteredCopyStrategy_log(strategy, strategy_input)]
    /\ UNCHANGED <<pipelineVars, created, strategy_input, surfaceVars, limiterVars>>

\* ---------------------------------------------------------------- manager
\* start() without its `if self.running` guard.
Start_Unguarded ==
    /\ monitor < MaxStarts
    /\ running' = TRUE
    /\ monitor' = monitor + 1
    /\ session' = [by |-> monitor + 1, open |-> TRUE]
    /\ mon_running' = [mon_running EXCEPT ![monitor + 1] = TRUE]
    /\ pc' = [pc EXCEPT ![monitor + 1] = "fetch"]
    /\ last_call' = IF running THEN "start_ignored" ELSE "start"
    /\ UNCHANGED <<envVars, outsideVars, last_orders, current_orders_dict, todo, tasks, result,
                   events, cycle_error, delivered, replications>>

\* start() hands the new OrderMonitor the snapshot of the monitor it replaces.
Start_KeepsSnapshot ==
    IF running
    THEN /\ last_call' = "start_ignored"
         /\ UNCHANGED <<envVars, outsideVars, running, monitor, session, mon_running, loopVars>>
    ELSE /\ monitor < MaxStarts
         /\ running' = TRUE
         /\ monitor' = monitor + 1
         /\ session' = [by |-> monitor + 1, open |-> TRUE]
         /\ mon_running' = [mon_running EXCEPT ![monitor + 1] = TRUE]
         /\ pc' = [pc EXCEPT ![monitor + 1] = "fetch"]
         /\ last_orders' = [last_orders EXCEPT ![monitor + 1] =
                              IF monitor # 0 THEN last_orders[monitor] ELSE EmptyDict]
         /\ last_call' = "start"
         /\ UNCHANGED <<envVars, outsideVars, current_orders_dict, todo, tasks, result,
                        events, cycle_error, delivered, replications>>

\* CopyTradingManager.start(), up to its first suspension: the guard, the new
\* OrderMonitor, master_client.__aenter__, OrderMonitor.start() and the loop's
\* first `while self.running`, which leaves the coroutine awaiting get_open_orders.
Start ==
    IF running
    THEN /\ last_call' = "start_ignored"
         /\ UNCHANGED <<envVars, outsideVars, running, monitor, session, mon_running, loopVars>>
    ELSE /\ monitor < MaxStarts
         /\ running' = TRUE
         /\ monitor' = monitor + 1
         /\ session' = [by |-> monitor + 1, open |-> TRUE]
         /\ mon_running' = [mon_running EXCEPT ![monitor + 1] = TRUE]
         /\ pc' = [pc EXCEPT ![monitor + 1] = "fetch"]
         /\ last_call' = "start"
         /\ UNCHANGED <<envVars, outsideVars, last_orders, current_orders_dict, todo, tasks, result,
                        events, cycle_error, delivered, replications>>

\* stop() without its `await self.monitor.stop()`.
Stop_ManagerOnly ==
    IF ~running
    THEN /\ last_call' = "stop_ignored"
         /\ UNCHANGED <<envVars, outsideVars, running, monitor, session, mon_running, loopVars>>
    ELSE /\ running' = FALSE
         /\ last_call' = "stop"
         /\ UNCHANGED <<envVars, outsideVars, monitor, session, mon_running, loopVars>>

\* stop() also cancels the tasks of the fan-out its monitor has in flight.
Stop_CancelsTasks ==
    IF ~running
    THEN /\ last_call' = "stop_ignored"
         /\ UNCHANGED <<envVars, outsideVars, running, monitor, session, mon_running, loopVars>>
    ELSE /\ running' = FALSE
         /\ mon_running' = [mon_running EXCEPT ![monitor] = FALSE]
         /\ tasks' = [tasks EXCEPT ![monitor] =
                        [k \in DOMAIN tasks[monitor] |->
                           IF tasks[monitor][k].state = "pending"
                           THEN [tasks[monitor][k] EXCEPT !.state = "cancelled"]
                           ELSE tasks[monitor][k]]]
         /\ last_call' = "stop"
         /\ UNCHANGED <<envVars, outsideVars, monitor, session, last_orders, current_orders_dict, pc,
                        todo, result, events, cycle_error, delivered, replications>>

\* CopyTradingManager.stop() with OrderMonitor.stop().
Stop ==
    IF ~running
    THEN /\ last_call' = "stop_ignored"
         /\ UNCHANGED <<envVars, outsideVars, running, monitor, session, mon_running, loopVars>>
    ELSE /\ running' = FALSE
         /\ mon_running' = IF monitor # 0
                           THEN [mon_running EXCEPT ![monitor] = FALSE]
                           ELSE mon_running
         /\ last_call' = "stop"
         /\ UNCHANGED <<envVars, outsideVars, monitor, session, loopVars>>

\* ----------------------------------------------------------- monitor loop
\* The fetch sits outside the loop's try: its error ends the loop.
FetchRaises_Escapes(m) ==
    /\ pc[m] = "fetch"
    /\ pc' = [pc EXCEPT ![m] = "done"]
    /\ cycle_error' = [cycle_error EXCEPT ![m] = "fetch"]
    /\ UNCHANGED <<envVars, outsideVars, managerVars, last_orders, current_orders_dict, todo, tasks,
                   result, events, delivered, replications>>

\* await self.client.get_open_orders() raises: caught by the loop's except.
FetchRaises(m) ==
    /\ pc[m] = "fetch"
    /\ pc' = [pc EXCEPT ![m] = "sleep"]
    /\ cycle_error' = [cycle_error EXCEPT ![m] = "fetch"]
    /\ UNCHANGED <<envVars, outsideVars, managerVars, last_orders, current_orders_dict, todo, tasks,
                   result, events, delivered, replications>>

\* get_open_orders returns the open orders; the loop builds current_orders_dict
\* and new_orders and enters the first for-loop that has something to visit.
FetchReturns(m) ==
    /\ pc[m] = "fetch"
    /\ LET current == OrdersDict(open_orders)
           next == AfterPlaced(NewOrders(current, last_orders[m]), current, last_orders[m])
       IN  /\ current_orders_dict' = [current_orders_dict EXCEPT ![m] = current]
           /\ pc' = [pc EXCEPT ![m] = next.pc]
           /\ todo' = [todo EXCEPT ![m] = next.todo]
    /\ UNCHANGED <<envVars, outsideVars, managerVars, last_orders, tasks, result, events, cycle_error,
                   delivered, replications>>

\* await self.on_order_placed(current_orders_dict[order_id]), up to the callback's
\* return, its raise, or its suspension in replicate_order's gather.
OnOrderPlaced(m, order_id) ==
    /\ pc[m] = "placed"
    /\ order_id \in todo[m]
    /\ LET order == current_orders_dict[m][order_id]
           next == AfterPlaced(todo[m] \ {order_id}, current_orders_dict[m], last_orders[m])
       IN  /\ events' = [events EXCEPT ![m] =
                           IF settings.enable_copying /\ ReplicateOrderRaises(order)
                           THEN <<>>
                           ELSE Append(@, [kind |-> "placed", order |-> order])]
           /\ delivered' = delivered \cup {order_id}
           /\ IF ~settings.enable_copying
              THEN /\ pc' = [pc EXCEPT ![m] = next.pc]
                   /\ todo' = [todo EXCEPT ![m] = next.todo]
                   /\ tasks' = [tasks EXCEPT ![m] = <<>>]
                   /\ result' = [result EXCEPT ![m] = NoResult]
                   /\ UNCHANGED <<cycle_error, replications>>
              ELSE IF ReplicateOrderRaises(order)
              THEN /\ pc' = [pc EXCEPT ![m] = "sleep"]
                   /\ todo' = [todo EXCEPT ![m] = {}]
                   /\ tasks' = [tasks EXCEPT ![m] = <<>>]
                   /\ result' = [result EXCEPT ![m] = NoResult]
                   /\ cycle_error' = [cycle_error EXCEPT ![m] = "handler"]
                   /\ UNCHANGED replications
              ELSE /\ pc' = [pc EXCEPT ![m] =
                               AfterLaunch(todo[m] \ {order_id}, current_orders_dict[m],
                                           last_orders[m]).pc]
                   /\ todo' = [todo EXCEPT ![m] =
                                 AfterLaunch(todo[m] \ {order_id}, current_orders_dict[m],
                                             last_orders[m]).todo]
                   /\ tasks' = [tasks EXCEPT ![m] =
                                  LaunchTasks(OrderParams(order, settings.copy_multiplier),
                                              settings.slave_accounts)]
                   /\ result' = [result EXCEPT ![m] = NoResult]
                   /\ replications' = [replications EXCEPT ![order_id] =
                                         IF @ < 2 THEN @ + 1 ELSE @]
                   /\ UNCHANGED cycle_error
    /\ UNCHANGED <<envVars, outsideVars, managerVars, last_orders, current_orders_dict>>

\* A gather that is not told return_exceptions and whose tasks do not catch: the
\* first task to raise cancels the tasks still pending.
PlaceOrder_CancelsSiblings(m, k, raised) ==
    /\ pc[m] = "gather"
    /\ k \in DOMAIN tasks[m]
    /\ tasks[m][k].state = "pending"
    /\ tasks' = [tasks EXCEPT ![m] =
                   [j \in DOMAIN tasks[m] |->
                      IF j = k
                      THEN [tasks[m][j] EXCEPT !.state = "done", !.raised = raised,
                                                !.ret = PlaceOrderOnAccount(raised)]
                      ELSE IF raised /\ tasks[m][j].state = "pending"
                      THEN [tasks[m][j] EXCEPT !.state = "cancelled"]
                      ELSE tasks[m][j]]]
    /\ UNCHANGED <<envVars, outsideVars, managerVars, last_orders, current_orders_dict, pc, todo,
                   result, events, cycle_error, delivered, replications>>

\* One task of the fan-out: client.place_order(**order_params) returns or raises,
\* and _place_order_on_account turns that into True or False.
PlaceOrder(m, k, raised) ==
    /\ pc[m] = "gather"
    /\ k \in DOMAIN tasks[m]
    /\ tasks[m][k].state = "pending"
    /\ tasks' = [tasks EXCEPT ![m][k] =
                   [@ EXCEPT !.state = "done", !.raised = raised,
                             !.ret = PlaceOrderOnAccount(raised)]]
    /\ UNCHANGED <<envVars, outsideVars, managerVars, last_orders, current_orders_dict, pc, todo,
                   result, events, cycle_error, delivered, replications>>

\* asyncio.wait(tasks, return_when=FIRST_COMPLETED) in place of the gather:
\* replicate_order goes on as soon as one task is done.
GatherReturns_FirstCompleted(m) ==
    /\ pc[m] = "gather"
    /\ \E k \in DOMAIN tasks[m] : tasks[m][k].state # "pending"
    /\ result' = [result EXCEPT ![m] =
                    [kind |-> "dict", map |-> ResultDict(settings.slave_accounts, tasks[m])]]
    /\ LET next == AfterPlaced(todo[m], current_orders_dict[m], last_orders[m])
       IN  /\ pc' = [pc EXCEPT ![m] = next.pc]
           /\ todo' = [todo EXCEPT ![m] = next.todo]
    /\ UNCHANGED <<envVars, outsideVars, managerVars, last_orders, current_orders_dict, tasks, events,
                   cycle_error, delivered, replications>>

\* asyncio.gather returns once every task is done; replicate_order builds
\* result_dict and _on_order_placed returns to the loop.
GatherReturns(m) ==
    /\ pc[m] = "gather"
    /\ \A k \in DOMAIN tasks[m] : tasks[m][k].state # "pending"
    /\ result' = [result EXCEPT ![m] =
                    [kind |-> "dict", map |-> ResultDict(settings.slave_accounts, tasks[m])]]
    /\ LET next == AfterPlaced(todo[m], current_orders_dict[m], last_orders[m])
       IN  /\ pc' = [pc EXCEPT ![m] = next.pc]
           /\ todo' = [todo EXCEPT ![m] = next.todo]
    /\ UNCHANGED <<envVars, outsideVars, managerVars, last_orders, current_orders_dict, tasks, events,
                   cycle_error, delivered, replications>>

\* await self.on_order_modified(order, self.last_orders[order_id])
OnOrderModified(m, order_id) ==
    /\ pc[m] = "modified"
    /\ order_id \in todo[m]
    /\ LET order == current_orders_dict[m][order_id]
           old == last_orders[m][order_id]
           next == AfterModified(todo[m] \ {order_id}, current_orders_dict[m], last_orders[m])
       IN  /\ events' = [events EXCEPT ![m] =
                           Append(@, [kind |-> "modified", order |-> order, old |-> old])]
           /\ result' = [result EXCEPT ![m] =
                           IF settings.enable_copying
                           THEN ReplicateModify(order, EmptyDict) ELSE NoResult]
           /\ pc' = [pc EXCEPT ![m] = next.pc]
           /\ todo' = [todo EXCEPT ![m] = next.todo]
    /\ tasks' = [tasks EXCEPT ![m] = <<>>]
    /\ UNCHANGED <<envVars, outsideVars, managerVars, last_orders, current_orders_dict, cycle_error,
                   delivered, replications>>

\* _on_order_cancelled without its `if not settings.enable_copying: return`.
OnOrderCancelled_NoFlagCheck(m, order_id) ==
    /\ pc[m] = "cancelled"
    /\ order_id \in todo[m]
    /\ LET order == last_orders[m][order_id]
           next == AfterCancelled(todo[m] \ {order_id})
       IN  /\ events' = [events EXCEPT ![m] = Append(@, [kind |-> "cancelled", order |-> order])]
           /\ result' = [result EXCEPT ![m] = ReplicateCancel(order)]
           /\ pc' = [pc EXCEPT ![m] = next.pc]
           /\ todo' = [todo EXCEPT ![m] = next.todo]
    /\ tasks' = [tasks EXCEPT ![m] = <<>>]
    /\ UNCHANGED <<envVars, outsideVars, managerVars, last_orders, current_orders_dict, cycle_error,
                   delivered, replications>>

\* await self.on_order_cancelled(self.last_orders[order_id])
OnOrderCancelled(m, order_id) ==
    /\ pc[m] = "cancelled"
    /\ order_id \in todo[m]
    /\ LET order == last_orders[m][order_id]
           next == AfterCancelled(todo[m] \ {order_id})
       IN  /\ events' = [events EXCEPT ![m] = Append(@, [kind |-> "cancelled", order |-> order])]
           /\ result' = [result EXCEPT ![m] =
                           IF settings.enable_copying
                           THEN ReplicateCancel(order) ELSE NoResult]
           /\ pc' = [pc EXCEPT ![m] = next.pc]
           /\ todo' = [todo EXCEPT ![m] = next.todo]
    /\ tasks' = [tasks EXCEPT ![m] = <<>>]
    /\ UNCHANGED <<envVars, outsideVars, managerVars, last_orders, current_orders_dict, cycle_error,
                   delivered, replications>>

\* self.last_orders.update(current_orders_dict): entries are added and
\* overwritten, the removed orders stay in the snapshot.
UpdateSnapshot_Merge(m) ==
    /\ pc[m] = "update"
    /\ last_orders' = [last_orders EXCEPT ![m] =
                         [i \in DOMAIN last_orders[m] \cup DOMAIN current_orders_dict[m] |->
                            IF i \in DOMAIN current_orders_dict[m]
                            THEN current_orders_dict[m][i] ELSE last_orders[m][i]]]
    /\ pc' = [pc EXCEPT ![m] = "sleep"]
    /\ events' = [events EXCEPT ![m] = <<>>]
    /\ tasks' = [tasks EXCEPT ![m] = <<>>]
    /\ result' = [result EXCEPT ![m] = NoResult]
    /\ UNCHANGED <<envVars, outsideVars, managerVars, current_orders_dict, todo, cycle_error,
                   delivered, replications>>

\* The snapshot is assigned only while settings.enable_copying is set.
UpdateSnapshot_OnlyWhenEnabled(m) ==
    /\ pc[m] = "update"
    /\ last_orders' = [last_orders EXCEPT ![m] =
                         IF settings.enable_copying THEN current_orders_dict[m] ELSE @]
    /\ pc' = [pc EXCEPT ![m] = "sleep"]
    /\ events' = [events EXCEPT ![m] = <<>>]
    /\ tasks' = [tasks EXCEPT ![m] = <<>>]
    /\ result' = [result EXCEPT ![m] = NoResult]
    /\ UNCHANGED <<envVars, outsideVars, managerVars, current_orders_dict, todo, cycle_error,
                   delivered, replications>>

\* self.last_orders = current_orders_dict, then asyncio.sleep(self.poll_interval)
UpdateSnapshot(m) ==
    /\ pc[m] = "update"
    /\ last_orders' = [last_orders EXCEPT ![m] = current_orders_dict[m]]
    /\ pc' = [pc EXCEPT ![m] = "sleep"]
    /\ events' = [events EXCEPT ![m] = <<>>]
    /\ tasks' = [tasks EXCEPT ![m] = <<>>]
    /\ result' = [result EXCEPT ![m] = NoResult]
    /\ UNCHANGED <<envVars, outsideVars, managerVars, current_orders_dict, todo, cycle_error,
                   delivered, replications>>

\* `while True`: the loop goes on whatever the running flag says.
LoopContinues_IgnoresRunning(m) ==
    /\ pc[m] = "sleep"
    /\ pc' = [pc EXCEPT ![m] = "fetch"]
    /\ cycle_error' = [cycle_error EXCEPT ![m] = "none"]
    /\ UNCHANGED <<envVars, outsideVars, managerVars, last_orders, current_orders_dict, todo, tasks,
                   result, events, delivered, replications>>

\* The sleep is over and `while self.running` holds: the next poll cycle begins.
LoopContinues(m) ==
    /\ pc[m] = "sleep"
    /\ mon_running[m]
    /\ pc' = [pc EXCEPT ![m] = "fetch"]
    /\ cycle_error' = [cycle_error EXCEPT ![m] = "none"]
    /\ UNCHANGED <<envVars, outsideVars, managerVars, last_orders, current_orders_dict, todo, tasks,
                   result, events, delivered, replications>>

\* The sleep is over and `while self.running` fails: the loop ends, OrderMonitor.start
\* returns, master_client.__aexit__ closes self.session and start() returns.
LoopExits(m) ==
    /\ pc[m] = "sleep"
    /\ ~mon_running[m]
    /\ pc' = [pc EXCEPT ![m] = "done"]
    /\ session' = IF session.by # 0 THEN [session EXCEPT !.open = FALSE] ELSE session
    /\ UNCHANGED <<envVars, outsideVars, running, monitor, mon_running, last_call, last_orders,
                   current_orders_dict, todo, tasks, result, events, cycle_error,
                   delivered, replications>>

\* ------------------------------------------------------- main and the bot
\* The account count cmd_status answers with.
ReportedAccounts == 30

\* main() goes on without awaiting copy_manager.start() to return.
MainInstallsSignalHandlers_NotAwaited ==
    /\ main_pc = "main"
    /\ monitor # 0
    /\ main_pc' = "signals"
    /\ UNCHANGED <<pipelineVars, strategyVars, reply, limiterVars>>

\* main(): `await copy_manager.start()` has returned (the monitor loop has ended);
\* main logs and installs signal_handler for SIGINT and SIGTERM.
MainInstallsSignalHandlers ==
    /\ main_pc = "main"
    /\ monitor # 0
    /\ pc[monitor] = "done"
    /\ main_pc' = "signals"
    /\ UNCHANGED <<pipelineVars, strategyVars, reply, limiterVars>>

\* main(): await start_bot(bot, dp), the dispatcher polls for updates.
MainStartsBot ==
    /\ main_pc = "signals"
    /\ main_pc' = "polling"
    /\ UNCHANGED <<pipelineVars, strategyVars, reply, limiterVars>>

\* cmd_status: answers "Статус: Активен / Аккаунтов: 30". The record keeps, next
\* to what the answer says, the manager's running flag as the handler returns.
CmdStatus ==
    /\ main_pc = "polling"
    /\ reply' = [command |-> "status", says_running |-> TRUE,
                 says_accounts |-> ReportedAccounts, running |-> running]
    /\ UNCHANGED <<pipelineVars, strategyVars, main_pc, limiterVars>>

\* cmd_stop: answers "Копирование остановлено".
CmdStop ==
    /\ main_pc = "polling"
    /\ reply' = [command |-> "stop", says_running |-> FALSE, running |-> running]
    /\ UNCHANGED <<pipelineVars, strategyVars, main_pc, limiterVars>>

\* cmd_start_copy: answers "Копирование запущено".
CmdStartCopy ==
    /\ main_pc = "polling"
    /\ reply' = [command |-> "start_copy", says_running |-> TRUE, running |-> running]
    /\ UNCHANGED <<pipelineVars, strategyVars, main_pc, limiterVars>>

\* ------------------------------------------------------------------- Next
\* What the trader does on the master account.
TraderStep ==
    \/ \E i \in OrderIds : \E o \in OrdersOf(i) : TraderPlace(i, o)
    \/ \E o \in open_orders : \E q \in Quantities : TraderModify(o, q)
    \/ \E o \in open_orders : TraderCancel(o)

\* One step of monitor m's coroutine.
LoopStep(m) ==
    \/ FetchRaises(m)
    \/ FetchReturns(m)
    \/ \E i \in OrderIds : OnOrderPlaced(m, i)
    \/ \E k \in 1..NumAccounts : \E raised \in BOOLEAN : PlaceOrder(m, k, raised)
    \/ GatherReturns(m)
    \/ \E i \in OrderIds : OnOrderModified(m, i)
    \/ \E i \in OrderIds : OnOrderCancelled(m, i)
    \/ UpdateSnapshot(m)
    \/ LoopContinues(m)
    \/ LoopExits(m)

\* The pipeline under one start(): the trader, the monitor loop and its callbacks,
\* and a stop() that ends it.
Next ==
    \/ TraderStep
    \/ (monitor = 0 /\ Start)
    \/ (running /\ Stop)
    \/ \E m \in Monitors : LoopStep(m)

Spec == Init /\ [][Next]_vars

\* The pipeline with settings.enable_copying switched from outside at any time.
ToggleNext ==
    \/ Next
    \/ \E b \in BOOLEAN : SetEnableCopying(b)

ToggleSpec == Init /\ [][ToggleNext]_vars

\* The same pipeline with the scheduling asyncio gives it: a coroutine that can
\* take a step eventually takes one (a sleep ends, a task completes), and the
\* exchange fetch succeeds again and again.
LiveSpec ==
    /\ Spec
    /\ \A m \in Monitors : WF_vars(LoopStep(m))
    /\ \A m \in Monitors : SF_vars(FetchReturns(m))

\* The lifecycle: any interleaving of start() and stop() calls with the monitor
\* loops they drive, the trader acting on one order id.
LifecycleOrderIds == {1}

LifecycleNext ==
    \/ \E i \in LifecycleOrderIds : \E o \in OrdersOf(i) : TraderPlace(i, o)
    \/ \E o \in open_orders : \E q \in Quantities : TraderModify(o, q)
    \/ \E o \in open_orders : TraderCancel(o)
    \/ Start
    \/ Stop
    \/ \E m \in Monitors : LoopStep(m)

LifecycleSpec == Init /\ [][LifecycleNext]_vars

\* The fan-out for any configured account list and for orders with and without
\* the optional keys, the trader acting on one order id.
FanOutNext ==
    \/ \E i \in LifecycleOrderIds : \E o \in OrdersOf(i) : TraderPlace(i, o)
    \/ \E i \in LifecycleOrderIds : \E q \in Quantities : TraderPlaceStop(i, q)
    \/ \E o \in open_orders : \E q \in Quantities : TraderModify(o, q)
    \/ \E o \in open_orders : TraderCancel(o)
    \/ (monitor = 0 /\ Start)
    \/ (running /\ Stop)
    \/ \E m \in Monitors : LoopStep(m)

FanOutSpec == FanOutInit /\ [][FanOutNext]_vars

\* The strategies on their own: the factory builds one, a market_data arrives,
\* analyze() is called on it.
StrategyNext ==
    \/ \E strategy_type \in StrategyTypes : \E kwargs \in StrategyKwargs :
         CreateStrategy(strategy_type, kwargs)
    \/ \E data \in MarketData : ReceiveSignal(data)
    \/ Analyze

StrategySpec == Init /\ [][StrategyNext]_vars

\* main(): the manager is started and awaited, then the signal handlers are
\* installed and the bot polls and serves its commands. stop() is called by
\* whoever else holds the manager.
MainNext ==
    \/ TraderStep
    \/ (monitor = 0 /\ Start)
    \/ (running /\ Stop)
    \/ \E m \in Monitors : LoopStep(m)
    \/ MainInstallsSignalHandlers
    \/ MainStartsBot
    \/ CmdStatus
    \/ CmdStop
    \/ CmdStartCopy

MainSpec == Init /\ [][MainNext]_vars

\* ------------------------------------------------------- RateLimitMiddleware
\* self.max_requests_per_minute
max_requests_per_minute == 20

\* The age, in seconds, from which a recorded request is dropped.
WindowSeconds == 60

\* The events the middleware is called with: an Update with a message or with a
\* callback_query of a user, and an Update whose message has no from_user.
UpdateEvents ==
    [kind : {"message", "callback_query"}, user_id : UserIds]
        \cup {[kind |-> "message", user_id |-> None]}

\* [req_time for req_time in requests if (now - req_time).total_seconds() < 60]
RecentRequests(requests, at) ==
    SelectSeq(requests, LAMBDA req_time : at - req_time < WindowSeconds)

\* self.user_requests[user_id] = value
SetItem(d, key, value) ==
    [k \in DOMAIN d \cup {key} |-> IF k = key THEN value ELSE d[k]]

\* The limit test lets through a history that is exactly at the limit.
RateLimitMiddleware_call_OffByOne(event) ==
    /\ IF event.user_id # None
       THEN LET user_id == event.user_id
                kept == IF user_id \in DOMAIN user_requests
                        THEN RecentRequests(user_requests[user_id], now)
                        ELSE <<>>
            IN  IF Len(kept) > max_requests_per_minute
                THEN /\ user_requests' = SetItem(user_requests, user_id, kept)
                     /\ verdict' = [kind |-> "rejected", user_id |-> user_id,
                                    answered |-> event.kind = "message"]
                     /\ UNCHANGED handled
                ELSE /\ user_requests' = SetItem(user_requests, user_id, Append(kept, now))
                     /\ handled' = [handled EXCEPT ![user_id] = Append(@, now)]
                     /\ verdict' = [kind |-> "handled", user_id |-> user_id]
       ELSE /\ verdict' = [kind |-> "handled", user_id |-> None]
            /\ UNCHANGED <<user_requests, handled>>
    /\ UNCHANGED <<pipelineVars, strategyVars, surfaceVars, now>>

\* RateLimitMiddleware.__call__(handler, event, data), up to its first await: the
\* answer to a rejected message, or the call of the handler.
RateLimitMiddleware_call(event) ==
    /\ IF event.user_id # None
       THEN LET user_id == event.user_id
                kept == IF user_id \in DOMAIN user_requests
                        THEN RecentRequests(user_requests[user_id], now)
                        ELSE <<>>
            IN  IF Len(kept) >= max_requests_per_minute
                THEN /\ user_requests' = SetItem(user_requests, user_id, kept)
                     /\ verdict' = [kind |-> "rejected", user_id |-> user_id,
                                    answered |-> event.kind = "message"]
                     /\ UNCHANGED handled
                ELSE /\ user_requests' = SetItem(user_requests, user_id, Append(kept, now))
                     /\ handled' = [handled EXCEPT ![user_id] = Append(@, now)]
                     /\ verdict' = [kind |-> "handled", user_id |-> user_id]
       ELSE /\ verdict' = [kind |-> "handled", user_id |-> None]
            /\ UNCHANGED <<user_requests, handled>>
    /\ UNCHANGED <<pipelineVars, strategyVars, surfaceVars, now>>

\* Time passes: datetime.now() moves on. The record of handled events keeps those
\* that can still share a window of WindowSeconds with an event to come.
ClockTick ==
    /\ now < MaxTime
    /\ now' = now + TickSeconds
    /\ handled' = [user_id \in UserIds |->
                     SelectSeq(handled[user_id],
                               LAMBDA t : now + TickSeconds - t < WindowSeconds)]
    /\ UNCHANGED <<pipelineVars, strategyVars, surfaceVars, user_requests, verdict>>

RateLimitNext ==
    \/ \E event \in UpdateEvents : RateLimitMiddleware_call(event)
    \/ ClockTick

RateLimitSpec == Init /\ [][RateLimitNext]_vars

\* The lifecycle with the scheduling asyncio gives it: a monitor coroutine that can
\* take a step eventually takes one (its fetch returns or raises, a place_order
\* returns or raises, its sleep ends).
LifecycleLiveSpec ==
    /\ LifecycleSpec
    /\ \A m \in Monitors : WF_vars(LoopStep(m))

\* ================================================================ claims
Last(seq) == seq[Len(seq)]

IsOpen(i) == \E o \in open_orders : o.order_id = i

Pending(m) == \E k \in DOMAIN tasks[m] : tasks[m][k].state = "pending"

\* How often `event` occurs among the callbacks of m's current cycle.
Occurrences(m, event) == Cardinality({k \in 1..Len(events[m]) : events[m][k] = event})

\* C1: when a poll cycle in which nothing raised has run its three for-loops (the loop
\* stands at the snapshot assignment, last_orders is still S1 and current_orders_dict
\* is S2), on_order_placed was called exactly once with S2[id] for every id only in
\* S2, on_order_modified exactly once with (S2[id], S1[id]) for every id in both
\* whose dicts differ, on_order_cancelled exactly once with S1[id] for every id only
\* in S1, and there was no other callback (none for an unchanged order).
C1_DiffClassifiesEveryOrder ==
    \A m \in Monitors :
        pc[m] = "update" =>
            LET S1 == last_orders[m]
                S2 == current_orders_dict[m]
                new == {i \in OrderIds : i \in DOMAIN S2 /\ i \notin DOMAIN S1}
                changed == {i \in OrderIds : i \in DOMAIN S2 /\ i \in DOMAIN S1 /\ S2[i] # S1[i]}
                removed == {i \in OrderIds : i \in DOMAIN S1 /\ i \notin DOMAIN S2}
            IN  /\ \A i \in new : Occurrences(m, [kind |-> "placed", order |-> S2[i]]) = 1
                /\ \A i \in changed :
                     Occurrences(m, [kind |-> "modified", order |-> S2[i], old |-> S1[i]]) = 1
                /\ \A i \in removed : Occurrences(m, [kind |-> "cancelled", order |-> S1[i]]) = 1
                /\ Len(events[m]) = Cardinality(new) + Cardinality(changed) + Cardinality(removed)

\* C1 witness: a cycle that delivered a Modified and a Cancelled event has reached
\* the snapshot assignment.
C1_Witness ==
    \E m \in Monitors :
        /\ pc[m] = "update"
        /\ \E k \in 1..Len(events[m]) : events[m][k].kind = "modified"
        /\ \E k \in 1..Len(events[m]) : events[m][k].kind = "cancelled"

\* C2: replicate_order fans an order id out at most once while the order is open
\* (order ids are never reused, so at most once at all), under one running monitor.
C2_NoDuplicatedReplication ==
    \A i \in OrderIds : replications[i] <= 1

\* C3: when replicate_order has returned its result map, no account's task was
\* cancelled or skipped: every account's place_order was invoked, an account whose
\* place_order raised is reported False, every other account True, and the call
\* itself did not raise into the poll cycle.
C3_PerAccountFailureIsolation ==
    \A m \in Monitors :
        result[m].kind = "dict" =>
            /\ cycle_error[m] = "none"
            /\ DOMAIN tasks[m] = 1..Len(settings.slave_accounts)
            /\ \A k \in DOMAIN tasks[m] :
                 /\ tasks[m][k].state = "done"
                 /\ result[m].map[AccountName(settings.slave_accounts[k])]
                      = ~tasks[m][k].raised

\* C3 witness: replicate_order returned with one account failed and another succeeded.
C3_Witness ==
    \E m \in Monitors :
        /\ result[m].kind = "dict"
        /\ \E j, k \in DOMAIN tasks[m] : tasks[m][j].raised /\ ~tasks[m][k].raised

\* C4: every place_order of a fan-out is submitted quantity Q * copy_multiplier,
\* Q being the quantity of the order on_order_placed was called with, on a first
\* and on a repeated replication alike, and the order in current_orders_dict still
\* is the order that was passed in (quantity Q).
C4_QuantityScaledWithoutAccumulation ==
    \A m \in Monitors :
        tasks[m] # <<>> =>
            LET order == Last(events[m]).order
            IN  /\ Last(events[m]).kind = "placed"
                /\ current_orders_dict[m][order.order_id] = order
                /\ \A k \in DOMAIN tasks[m] :
                     tasks[m][k].params.quantity = order.quantity * settings.copy_multiplier

\* C4 witness: the same order is fanned out a second time, with quantity Q * M again.
C4_Witness ==
    \E m \in Monitors :
        /\ pc[m] = "gather"
        /\ replications[Last(events[m]).order.order_id] = 2
        /\ Last(events[m]).order.quantity = MaxQuantity
        /\ \A k \in DOMAIN tasks[m] :
             tasks[m][k].params.quantity = MaxQuantity * CopyMultiplier

\* C5: whatever the replicator returns to a callback, for place, modify or cancel,
\* is a result map whose key set is the set of configured account names.
C5_ResultKeysAreAccountNames ==
    \A m \in Monitors :
        result[m] # NoResult =>
            /\ result[m].kind = "dict"
            /\ DOMAIN result[m].map =
                 {AccountName(settings.slave_accounts[k]) :
                    k \in 1..Len(settings.slave_accounts)}

EventRank(kind) ==
    CASE kind = "placed" -> 1
      [] kind = "modified" -> 2
      [] kind = "cancelled" -> 3

\* C6: the callbacks of one poll cycle run one after the other, all Placed before
\* all Modified before all Cancelled: the events of a cycle are in that order, a
\* fan-out is pending only while the loop waits in the Placed callback that
\* launched it, and a fetch is awaited only with no callback of the cycle begun.
C6_SequentialPlacedModifiedCancelled ==
    \A m \in Monitors :
        /\ \A j, k \in 1..Len(events[m]) :
             j < k => EventRank(events[m][j].kind) <= EventRank(events[m][k].kind)
        /\ Pending(m) =>
             /\ pc[m] = "gather"
             /\ Last(events[m]).kind = "placed"
             /\ \A k \in DOMAIN tasks[m] :
                  tasks[m][k].params = OrderParams(Last(events[m]).order, settings.copy_multiplier)
        /\ pc[m] = "fetch" => events[m] = <<>> /\ ~Pending(m)

\* C6 witness: a cycle delivered a Placed event and, after it returned, a Modified one.
C6_Witness ==
    \E m \in Monitors :
        /\ Len(events[m]) = 2
        /\ events[m][1].kind = "placed"
        /\ events[m][2].kind = "modified"
        /\ ~Pending(m)

\* C7: an error of the fetch or of a handler never ends the loop: after it the
\* loop stands at its sleep (or has ended because running was set false), and
\* while running holds it goes on to await the next fetch.
C7_BadCycleNeverTerminatesMonitoring ==
    /\ [](\A m \in Monitors :
            cycle_error[m] # "none" =>
                \/ pc[m] = "sleep"
                \/ pc[m] = "done" /\ ~mon_running[m])
    /\ \A m \in Monitors :
         (cycle_error[m] # "none" /\ pc[m] = "sleep")
            ~> (pc[m] = "fetch" \/ ~mon_running[m])

\* C7 witness: a handler raised and the loop stands at its sleep, still running.
C7_Witness ==
    \E m \in Monitors : cycle_error[m] = "handler" /\ pc[m] = "sleep" /\ mon_running[m]

C9_NoMissedReplication ==
    \A i \in OrderIds :
        (\E o \in open_orders : o.order_id = i /\ ~ReplicateOrderRaises(o))
            ~> (i \in delivered \/ ~IsOpen(i) \/ ~running)

\* Everything but the record of the last call.
programVars == <<envVars, running, monitor, session, mon_running, loopVars>>

\* C10: a start() while running and a stop() while stopped change nothing: no new
\* OrderMonitor, no monitor loop started, no flag touched.
C10_StartIdempotentStopGuarded ==
    [][/\ (running /\ Start) => UNCHANGED programVars
       /\ (~running /\ Stop) => UNCHANGED programVars]_vars

\* C10 witness: start() was called twice in a row and one monitor exists, its loop
\* awaiting its first fetch.
C10_Witness ==
    /\ last_call = "start_ignored"
    /\ monitor = 1
    /\ pc[1] = "fetch"
    /\ \A m \in Monitors : m # 1 => pc[m] = "new"

\* The monitor's stop() was called: it was started and its running flag is false.
Stopped(m) == pc[m] # "new" /\ ~mon_running[m]

\* C11: a stopped monitor awaits no further fetch (it never goes from anywhere to
\* awaiting get_open_orders, and its flag is never set again); stop() touches nothing
\* of the cycle in flight, no task of a fan-out is ever cancelled, and a fan-out that
\* is in flight when its monitor is stopped runs until replicate_order returns its
\* result map with every task done.
C11_NoNewCycleAfterStopInFlightCompletes ==
    /\ [][\A m \in Monitors :
            Stopped(m) => /\ ~mon_running'[m]
                          /\ (pc[m] # "fetch" => pc'[m] # "fetch")]_vars
    /\ [][Stop => UNCHANGED loopVars]_vars
    /\ [](\A m \in Monitors : \A k \in DOMAIN tasks[m] : tasks[m][k].state # "cancelled")
    /\ \A m \in Monitors :
         (Stopped(m) /\ Pending(m))
            ~> (result[m].kind = "dict" /\ \A k \in DOMAIN tasks[m] : tasks[m][k].state = "done")

\* C11 witness: stop() has just been called while a fan-out of its monitor is in flight.
C11_Witness ==
    \E m \in Monitors : last_call = "stop" /\ Stopped(m) /\ Pending(m) /\ pc[m] = "gather"

\* C12: once stop() has set a monitor's running flag false, its loop eventually ends
\* and the start() call that drives it returns.
C12_LoopExitsAfterStop ==
    \A m \in Monitors : Stopped(m) ~> (pc[m] = "done")

\* C12 witness: a monitor that was stopped in the middle of a poll cycle that called a
\* handler has ended its loop.
C12_Witness ==
    \E m \in Monitors : Stopped(m) /\ pc[m] = "done" /\ delivered # {}

\* The monitor's coroutine is inside a poll cycle: between awaiting the fetch and
\* the snapshot assignment.
InCycle(m) == pc[m] \in {"fetch", "placed", "gather", "modified", "cancelled", "update"}

\* C13: under any interleaving of start() and stop(), at most one monitor loop is
\* alive (started and not ended), at most one is inside a poll cycle, and at most
\* one fan-out is in flight.
C13_SinglePollLoop ==
    /\ Cardinality({m \in Monitors : pc[m] \notin {"new", "done"}}) <= 1
    /\ Cardinality({m \in Monitors : InCycle(m)}) <= 1
    /\ Cardinality({m \in Monitors : Pending(m)}) <= 1

\* C14: at every point where control is yielded, CopyTradingManager.running is true
\* exactly when the current OrderMonitor's running flag is true, and no other
\* monitor's flag is true: a monitor whose flag is set is always the one stop() stops.
C14_ManagerFlagIsMonitorFlag ==
    /\ running <=> (monitor # 0 /\ mon_running[monitor])
    /\ \A m \in Monitors : mon_running[m] => (running /\ m = monitor)

\* C14 witness: after start(), stop(), start() the manager runs its second monitor
\* while the first one's loop, its flag false, has not ended yet.
C14_Witness ==
    /\ running
    /\ monitor = 2
    /\ mon_running[2]
    /\ ~mon_running[1]
    /\ pc[1] \notin {"new", "done"}

\* Some callback of monitor m is called with order id i in this step.
CallbackStep(m, i) == OnOrderPlaced(m, i) \/ OnOrderModified(m, i) \/ OnOrderCancelled(m, i)

\* C15: a callback entered while settings.enable_copying is false does not call the
\* replicator (no result, no task launched, no replication counted), raises nothing
\* and returns at once, the loop going on with its cycle; and switching the flag
\* touches neither the manager nor any monitor loop.
C15_DisabledCallbacksAreNoOps ==
    /\ [][\A m \in Monitors : \A i \in OrderIds :
            (~settings.enable_copying /\ CallbackStep(m, i)) =>
                /\ result'[m] = NoResult
                /\ tasks'[m] = <<>>
                /\ replications' = replications
                /\ cycle_error' = cycle_error
                /\ pc'[m] \in {"placed", "modified", "cancelled", "update"}]_vars
    /\ [][(settings'.enable_copying # settings.enable_copying) =>
            UNCHANGED <<managerVars, loopVars>>]_vars

\* C15 witness: with the flag false a cycle has run a Placed and a Cancelled callback
\* and reached the snapshot assignment, nothing replicated and nothing raised.
C15_Witness ==
    \E m \in Monitors :
        /\ ~settings.enable_copying
        /\ pc[m] = "update"
        /\ Len(events[m]) = 2
        /\ events[m][1].kind = "placed"
        /\ events[m][2].kind = "cancelled"
        /\ result[m] = NoResult
        /\ \A i \in OrderIds : replications[i] = 0

\* A strategy one would configure: copy nothing on BTC_USDT.
ExcludingStrategy == FilteredCopyStrategy(1, 0, {}, {"BTC_USDT"})

\* C16: a fan-out is launched only for a Placed event the configured strategy
\* accepts: every order with place_order calls in flight passes analyze().
C16_RejectedEventNeverPlaced ==
    \A m \in Monitors :
        Pending(m) =>
            FilteredCopyStrategy_analyze(ExcludingStrategy,
                                         [signal |-> Last(events[m]).order]) # NoSignal

\* C17: once _on_order_cancelled has run with the flag set, a cancel operation was
\* launched for each configured secondary account.
C17_CancelAppliedToEveryAccount ==
    \A m \in Monitors :
        (events[m] # <<>> /\ Last(events[m]).kind = "cancelled" /\ result[m] # NoResult) =>
            Len(tasks[m]) = Len(settings.slave_accounts)

\* C18: replicate_order creates the tasks of all accounts in one step, one per
\* account and all pending; it has returned nothing while one of them is
\* outstanding; and when it returns its map every task of the fan-out has finished.
C18_FanOutLaunchedTogetherAndAwaited ==
    /\ [][\A m \in Monitors :
            (tasks[m] = <<>> /\ tasks'[m] # <<>>) =>
                /\ Len(tasks'[m]) = Len(settings.slave_accounts)
                /\ \A k \in DOMAIN tasks'[m] : tasks'[m][k].state = "pending"
                /\ result'[m] = NoResult]_vars
    /\ [](\A m \in Monitors : Pending(m) => result[m] = NoResult /\ pc[m] = "gather")
    /\ [][\A m \in Monitors :
            (result[m] = NoResult /\ result'[m].kind = "dict") =>
                /\ Len(tasks[m]) = Len(settings.slave_accounts)
                /\ \A k \in DOMAIN tasks[m] : tasks[m][k].state = "done"
                /\ tasks'[m] = tasks[m]]_vars

\* C18 witness: replicate_order has returned its map after every account's
\* place_order failed, none outstanding.
C18_Witness ==
    \E m \in Monitors :
        /\ result[m].kind = "dict"
        /\ tasks[m] # <<>>
        /\ \A k \in DOMAIN tasks[m] : tasks[m][k].state = "done" /\ tasks[m][k].raised

\* C19: the result map replicate_order returns has as many entries as there are
\* configured secondary accounts.
C19_ResultHasOneEntryPerAccount ==
    \A m \in Monitors :
        result[m].kind = "dict" =>
            Cardinality(DOMAIN result[m].map) = Len(settings.slave_accounts)

\* C20: every place_order of a fan-out is submitted the symbol, side, order type,
\* price, stop price and reduce-only flag of the order the Placed callback was called
\* with (an absent optional key as None, an absent reduce_only as False), only the
\* quantity being multiplied, and all accounts get the same parameters.
C20_PlaceParametersPreserved ==
    \A m \in Monitors : \A k \in DOMAIN tasks[m] :
        LET order == Last(events[m]).order
            params == tasks[m][k].params
        IN  /\ params.symbol = order.symbol
            /\ params.side = order.side
            /\ params.order_type = order.order_type
            /\ params.price = Get(order, "price", None)
            /\ params.stop_price = Get(order, "stop_price", None)
            /\ params.reduce_only = Get(order, "reduce_only", FALSE)
            /\ params.quantity = order.quantity * settings.copy_multiplier
            /\ DOMAIN params = {"symbol", "side", "order_type", "quantity", "price",
                                "stop_price", "reduce_only"}
            /\ \A j \in DOMAIN tasks[m] : tasks[m][j].params = params

\* C20 witness: the fan-out of a reduce-only stop order is in flight, every account
\* being submitted its stop price and its reduce-only flag.
C20_Witness ==
    \E m \in Monitors :
        /\ Pending(m)
        /\ "stop_price" \in DOMAIN Last(events[m]).order
        /\ \A k \in DOMAIN tasks[m] :
             /\ tasks[m][k].params.stop_price = Last(events[m]).order.stop_price
             /\ tasks[m][k].params.reduce_only
             /\ tasks[m][k].params.symbol = "ETH_USDT"

\* analyze() of a strategy of class `class` has returned for a market_data that
\* carries a signal.
Analyzed(class) ==
    /\ analysis.kind = "returned"
    /\ created.result.class = class
    /\ "signal" \in DOMAIN strategy_input
    /\ DOMAIN strategy_input.signal # {}

\* C21: for a market_data that carries a signal, FilteredCopyStrategy.analyze returns
\* a signal exactly when quantity * price (an absent one counting 0) is at least
\* min_trade_size, the allow-list is empty or holds the symbol, and the deny-list
\* does not hold the symbol; it logs the first of these checks that fails, in the
\* order size, allow-list, deny-list; and the signal it returns is the input's.
C21_FilteredAcceptsIffAllChecksPass ==
    Analyzed("FilteredCopyStrategy") =>
        LET self == created.result.strategy
            signal == strategy_input.signal
            notional == (IF "quantity" \in DOMAIN signal THEN signal.quantity ELSE 0)
                        * (IF "price" \in DOMAIN signal THEN signal.price ELSE 0)
            sizeOk == notional >= self.min_trade_size
            allowOk == \/ self.allowed_symbols = {}
                       \/ "symbol" \in DOMAIN signal /\ signal.symbol \in self.allowed_symbols
            denyOk == ~("symbol" \in DOMAIN signal /\ signal.symbol \in self.exclude_symbols)
        IN  /\ (analysis.signal # NoSignal) <=> (sizeOk /\ allowOk /\ denyOk)
            /\ analysis.log = IF ~sizeOk THEN "Signal rejected: trade size"
                              ELSE IF ~allowOk THEN "Signal rejected: symbol not in allowed list"
                              ELSE IF ~denyOk THEN "Signal rejected: symbol is excluded"
                              ELSE "nothing"
            /\ (analysis.signal # NoSignal /\ "symbol" \in DOMAIN signal) =>
                 analysis.signal.symbol = signal.symbol

\* C21 witness: a signal above the floor whose symbol is both allow-listed and
\* deny-listed was rejected by the deny-list.
C21_Witness ==
    /\ Analyzed("FilteredCopyStrategy")
    /\ "symbol" \in DOMAIN strategy_input.signal
    /\ strategy_input.signal.symbol \in created.result.strategy.allowed_symbols
    /\ strategy_input.signal.symbol \in created.result.strategy.exclude_symbols
    /\ analysis.signal = NoSignal
    /\ analysis.log = "Signal rejected: symbol is excluded"

\* C22: SimpleCopyStrategy.analyze returns a signal exactly when the input signal has
\* symbol, side and quantity, its side is BUY, SELL or CLOSE and its quantity is
\* positive; the signal returned carries the input's symbol, side, quantity and
\* price; otherwise it returns None (it returns, it does not raise).
C22_SimpleAcceptsIffValid ==
    (analysis.kind = "returned" /\ created.result.class = "SimpleCopyStrategy") =>
        LET signal == IF "signal" \in DOMAIN strategy_input THEN strategy_input.signal
                      ELSE EmptyDict
            valid == /\ {"symbol", "side", "quantity"} \subseteq DOMAIN signal
                     /\ signal.side \in {"BUY", "SELL", "CLOSE"}
                     /\ signal.quantity > 0
        IN  /\ (analysis.signal # NoSignal) <=> valid
            /\ valid => /\ analysis.signal.symbol = signal.symbol
                        /\ analysis.signal.side = signal.side
                        /\ analysis.signal.quantity = signal.quantity
                        /\ analysis.signal.price =
                             (IF "price" \in DOMAIN signal THEN signal.price ELSE None)

\* C22 witness: a signal with every field and a positive quantity was rejected for
\* its side.
C22_Witness ==
    /\ Analyzed("SimpleCopyStrategy")
    /\ DOMAIN strategy_input.signal = SignalFields
    /\ strategy_input.signal.quantity > 0
    /\ strategy_input.signal.side = "HOLD"
    /\ analysis.signal = NoSignal
    /\ analysis.log = "Invalid signal"

\* C23: create_strategy("simple") returns a SimpleCopyStrategy, create_strategy(
\* "filtered") a FilteredCopyStrategy with the parameters given (floor 0 and empty
\* lists by default), and any other name raises ValueError and returns nothing.
C23_FactorySelectsByNameOrRaises ==
    created.kind = "called" =>
        /\ created.strategy_type = "simple" =>
             /\ created.result.kind = "returned"
             /\ created.result.class = "SimpleCopyStrategy"
             /\ DOMAIN created.result.strategy = {"trader_id"}
             /\ created.result.strategy.trader_id = created.kwargs.trader_id
        /\ created.strategy_type = "filtered" =>
             /\ created.result.kind = "returned"
             /\ created.result.class = "FilteredCopyStrategy"
             /\ created.result.strategy.trader_id = created.kwargs.trader_id
             /\ created.result.strategy.min_trade_size =
                  (IF "min_trade_size" \in DOMAIN created.kwargs
                   THEN created.kwargs.min_trade_size ELSE 0)
             /\ created.result.strategy.allowed_symbols =
                  (IF "allowed_symbols" \in DOMAIN created.kwargs
                   THEN created.kwargs.allowed_symbols ELSE {})
             /\ created.result.strategy.exclude_symbols =
                  (IF "exclude_symbols" \in DOMAIN created.kwargs
                   THEN created.kwargs.exclude_symbols ELSE {})
        /\ created.strategy_type \notin {"simple", "filtered"} =>
             /\ created.result.kind = "raised"
             /\ created.result.error = "ValueError"
             /\ DOMAIN created.result = {"kind", "error"}

\* C23 witness: create_strategy was called with an unknown name and raised.
C23_Witness ==
    /\ created.kind = "called"
    /\ created.strategy_type = "momentum"
    /\ created.result.kind = "raised"

\* C24: as a command handler returns, the orchestrator is Stopped after a stop
\* command and Running after a start command, and the status answer states the
\* manager's running flag and the number of configured accounts.
C24_CommandsMappedOntoOrchestrator ==
    /\ reply.command = "stop" => ~reply.running
    /\ reply.command = "start_copy" => reply.running
    /\ reply.command = "status" =>
         /\ reply.says_running = reply.running
         /\ reply.says_accounts = Len(settings.slave_accounts)

\* C27: main() has installed its signal handlers or started the bot only if
\* copy_manager.start() has returned, that is only if the monitor loop has ended;
\* while the loop is alive main() still awaits start() and no command was served.
C27_MainBlockedUntilLoopExits ==
    /\ main_pc \in {"signals", "polling"} => (monitor # 0 /\ pc[monitor] = "done")
    /\ \A m \in Monitors :
         pc[m] \notin {"new", "done"} => (main_pc = "main" /\ reply.command = "none")

\* C27 witness: the loop ran a callback, was stopped and ended, and only then the
\* bot started polling.
C27_Witness ==
    /\ main_pc = "polling"
    /\ monitor # 0
    /\ pc[monitor] = "done"
    /\ delivered # {}

\* C25: a start() that is not ignored begins a monitor whose snapshot is empty,
\* whatever the monitor before it had seen; and when a monitor with an empty
\* snapshot has run a poll cycle without error, on_order_placed was called once for
\* every order the fetch returned, those an earlier monitor had already delivered
\* included.
C25_FreshSnapshotOnEveryStart ==
    /\ [][\A m \in Monitors :
            (pc[m] = "new" /\ pc'[m] # "new") =>
                /\ last_orders'[m] = EmptyDict
                /\ pc'[m] = "fetch"
                /\ monitor' = m]_vars
    /\ [](\A m \in Monitors :
            (pc[m] = "update" /\ last_orders[m] = EmptyDict) =>
                /\ \A i \in DOMAIN current_orders_dict[m] :
                     Occurrences(m, [kind |-> "placed", order |-> current_orders_dict[m][i]]) = 1
                /\ Len(events[m]) = Cardinality(DOMAIN current_orders_dict[m]))

\* C25 witness: after a restart the second monitor has fanned out, a second time,
\* an order the first monitor had in its snapshot and that is still open.
C25_Witness ==
    /\ monitor = 2
    /\ pc[2] = "update"
    /\ last_orders[2] = EmptyDict
    /\ \E i \in DOMAIN current_orders_dict[2] :
         /\ i \in DOMAIN last_orders[1]
         /\ IsOpen(i)
         /\ replications[i] = 2

\* C26: while a monitor loop is alive the master client's session is open.
C26_SessionOpenWhileLoopActive ==
    \A m \in Monitors : pc[m] \notin {"new", "done"} => session.open

\* The Placed callback of order id i was a no-op because copying was disabled: it
\* was called, nothing was fanned out, and the order is one replicate_order accepts.
SkippedWhileDisabled(i, order) ==
    i \in delivered /\ replications[i] = 0 /\ ~ReplicateOrderRaises(order)

Instants == {t \in 0..(MaxTime + TickSeconds) : t % TickSeconds = 0}

\* The events of handled[user_id] in the window of WindowSeconds that ends at end.
HandledInWindowEndingAt(user_id, end) ==
    SelectSeq(handled[user_id], LAMBDA t : t <= end /\ end - t < WindowSeconds)

\* The step is a call of the middleware with an Update of user_id.
CallFor(user_id) ==
    \E kind \in {"message", "callback_query"} :
        RateLimitMiddleware_call([kind |-> kind, user_id |-> user_id])

\* C29: for every user, no window of 60 seconds holds more than
\* max_requests_per_minute events passed to the handler; an event of a user is
\* rejected exactly when that user's own handled events of the last 60 seconds have
\* reached the limit, a rejected event is not added to the user's history and the
\* handler is not called for it; and a call for one user leaves the history and the
\* handled events of every other user as they were.
C29_PerUserSlidingWindowLimit ==
    /\ [](\A user_id \in UserIds : \A end \in Instants :
            Len(HandledInWindowEndingAt(user_id, end)) <= max_requests_per_minute)
    /\ [][(verdict'.kind # "none" /\ verdict'.user_id # None /\ CallFor(verdict'.user_id)) =>
            LET user_id == verdict'.user_id
                before == Get(user_requests, user_id, <<>>)
            IN  /\ verdict'.kind = "rejected" <=>
                     Len(HandledInWindowEndingAt(user_id, now)) >= max_requests_per_minute
                /\ verdict'.kind = "rejected" =>
                     /\ handled' = handled
                     /\ user_requests'[user_id] = RecentRequests(before, now)
                /\ verdict'.kind # "rejected" =>
                     /\ verdict'.kind = "handled"
                     /\ handled'[user_id] = Append(handled[user_id], now)
                /\ \A other \in UserIds \ {user_id} :
                     /\ handled'[other] = handled[other]
                     /\ other \in DOMAIN user_requests' <=> other \in DOMAIN user_requests
                     /\ Get(user_requests', other, <<>>) = Get(user_requests, other, <<>>)]_vars

\* C29 witness: an event of one user has just been rejected, after
\* max_requests_per_minute of that user's events spread over two instants of the same
\* window were handled, while another user has had events handled and is below the
\* limit.
C29_Witness ==
    \E user_id \in UserIds : \E other \in UserIds \ {user_id} :
        /\ verdict = [kind |-> "rejected", user_id |-> user_id, answered |-> TRUE]
        /\ Len(handled[user_id]) = max_requests_per_minute
        /\ handled[user_id][1] < handled[user_id][max_requests_per_minute]
        /\ Len(handled[other]) \in 1..(max_requests_per_minute - 1)
        /\ Len(user_requests[user_id]) = max_requests_per_minute

====
